---- MODULE Spec2Model ----
(***************************************************************************)
(* TribalMemoryProvider (src/src/providers/tribalmemory/index.ts): the     *)
(* provider object, the calls running on it and the TribalMemory HTTP      *)
(* server it talks to.                                                     *)
(*                                                                         *)
(* Every method of the provider is an async function.  One action of the   *)
(* model is one synchronous segment of a method: ...Call runs the method   *)
(* from its entry to its first await (the request is issued), ...Resume    *)
(* takes the answer of the awaited request and runs the method to its next *)
(* await or to its return.  Calls of several workers interleave at these   *)
(* points only, as on the JavaScript event loop.                           *)
(*                                                                         *)
(* The server is not part of the repository.  It is the environment: it    *)
(* answers each request with any of the answers its HTTP interface allows  *)
(* (lines 23-52), it filters recall on the tags of the request, and a      *)
(* request that fails leaves its store unchanged.                          *)
(***************************************************************************)
EXTENDS Integers, Sequences, FiniteSets, TLC

VARIABLES
    baseUrl,            \* TribalMemoryProvider.baseUrl
    apiKey,             \* TribalMemoryProvider.apiKey
    containerMemories,  \* TribalMemoryProvider.containerMemories: tag -> ids
    proc,               \* per worker: the call in flight and its locals
    ret,                \* the outcome of the call that returned in the last step
    store,              \* server: live memories, id -> [content, tags, context]
    minted,             \* server: number of memory ids handed out so far
    origin,             \* history: id -> containerTag of the ingest that created it
    owed,               \* history: tag -> ids ingest returned that no clear has taken up
    raced,              \* history: tag -> an ingest and a clear on it have overlapped
    forgetRequested,    \* history: ids a DELETE request was issued for
    once,               \* history: provider state after the last successful initialize
    calls               \* number of calls started

vars == <<baseUrl, apiKey, containerMemories, proc, ret, store, minted,
          origin, owed, raced, forgetRequested, once, calls>>

----------------------------------------------------------------------------
(* Bounds of the model *)

MaxCalls == 3
MaxMem == 3
MaxResults == 2

(* Program constants *)

DefaultLimit == 30
DefaultMinRelevance == 30

DefaultBaseUrl == "http://localhost:8765"

Procs == {"w1", "w2"}
NoId == 0
Undefined == "<undefined>"

(* Container tags are opaque strings; "user" is also the role of a message. *)
Tags == {"caseA", "user"}

----------------------------------------------------------------------------
(* Inputs *)

Msg(role, speaker, content, timestamp) ==
    [role |-> role, speaker |-> speaker, content |-> content, timestamp |-> timestamp]

EmptyObj == [k \in {} |-> ""]

Session1 ==
    [sessionId |-> "s1", timestamp |-> "2024-01-15",
     messages |-> << Msg("user", Undefined, "I love a good steak", ""),
                     Msg("assistant", "bot", "Any favorite cuts?", "2024-01-16") >>,
     metadata |-> EmptyObj]

Session2 ==
    [sessionId |-> "s2", timestamp |-> "2024-06-20",
     messages |-> << Msg("user", Undefined, "I love a good steak", "") >>,
     metadata |-> ("topic" :> "food")]

Session0 ==
    [sessionId |-> "s0", timestamp |-> "2024-01-01",
     messages |-> << >>,
     metadata |-> EmptyObj]

SessionInputs == { << >>, << Session1 >>, << Session0, Session2 >> }

OptionMetadata == { EmptyObj }

Configs == { [baseUrl |-> "", apiKey |-> ""],
             [baseUrl |-> "http://tm:8765", apiKey |-> "key"] }

\* the IngestResults awaitIndexing is called with
IngestResults == { [documentIds |-> << >>], [documentIds |-> << 2, 1 >>] }

Queries == { "Recommend a restaurant for dinner" }
\* limit and threshold of a search; 0 stands for an option that is not given
LimitsAndThresholds == { <<0, 0>>, <<1, 50>> }

----------------------------------------------------------------------------
(* JavaScript helpers *)

\* a || b on strings: the empty string is falsy
OrElse(a, b) == IF a = "" THEN b ELSE a

\* a || b on numbers: 0 (and undefined, modelled as 0) is falsy
OrElseNum(a, b) == IF a = 0 THEN b ELSE a

\* { ...a, ...b }: the keys of b override those of a
Spread(a, b) == b @@ a

\* JSON.stringify of an object drops the keys whose value is undefined
Stringify(obj) == [k \in {j \in DOMAIN obj : obj[j] # Undefined} |-> obj[k]]

\* this.containerMemories.get(tag) || []
Get(map, tag) == IF tag \in DOMAIN map THEN map[tag] ELSE << >>

\* Map.set / Map.delete
Put(map, tag, v) == [t \in DOMAIN map \cup {tag} |-> IF t = tag THEN v ELSE map[t]]
Delete(map, tag) == [t \in DOMAIN map \ {tag} |-> map[t]]

Range(s) == { s[i] : i \in 1..Len(s) }

----------------------------------------------------------------------------
(* Records of the calls *)

Idle ==
    [kind |-> "idle", tag |-> "", config |-> [baseUrl |-> "", apiKey |-> ""],
     sessions |-> << >>, messages |-> 0, requests |-> << >>, k |-> 0,
     answered |-> 0, memoryIds |-> << >>,
     rejected |-> 0, acked |-> << >>, ackedAt |-> << >>, overlap |-> FALSE,
     deleted |-> 0, body |-> [query |-> "", limit |-> 0, min_relevance |-> 0, tags |-> << >>]]

NoRet ==
    [op |-> "none", status |-> "none", tag |-> "",
     config |-> [baseUrl |-> "", apiKey |-> ""],
     sessions |-> << >>, messages |-> 0, attempted |-> 0, rejected |-> 0,
     acked |-> << >>, ackedAt |-> << >>, overlap |-> FALSE,
     documentIds |-> << >>, results |-> << >>, answer |-> "none", raw |-> << >>,
     requested |-> << >>, owed |-> {}, deleted |-> 0,
     callback |-> FALSE, progress |-> << >>,
     text |-> "", criteria |-> << >>, retrieved |-> << >>,
     outcome |-> "none", mode |-> "none"]

NoOnce == [valid |-> FALSE, config |-> [baseUrl |-> "none", apiKey |-> "none"],
           baseUrl |-> "", apiKey |-> "", again |-> FALSE]

\* an ingest on the tag is in flight
Ingesting(tag) == \E p \in Procs : proc[p].kind = "ingest" /\ proc[p].tag = tag

\* a clear on the tag is in flight
Clearing(tag) == \E p \in Procs : proc[p].kind = "clear" /\ proc[p].tag = tag

Busy(tag) == \E p \in Procs : proc[p].kind \in {"ingest", "clear", "search"} /\ proc[p].tag = tag

----------------------------------------------------------------------------
(* initialize, lines 61-81 *)

\* GET /v1/health: the fetch rejects, or answers with a status and a body
HealthAnswers == { "reject", "status", "badjson", "healthy" }

\* lines 66-80: every failure inside the try is rethrown by the catch
MutInitializeOutcome(answer) == "returned"
InitializeOutcome(answer) ==
    IF answer = "reject" THEN "threw"           \* fetch rejects -> catch -> throw
    ELSE IF answer = "status" THEN "threw"       \* !response.ok -> throw -> catch -> throw
    ELSE IF answer = "badjson" THEN "threw"      \* response.json() rejects -> catch -> throw
    ELSE "returned"

\* lines 62-63 (the registry is not touched)
MutInitializeRegistry(map) == EmptyObj
InitializeRegistry(map) == map

InitializeCall(p, config) ==
    /\ proc[p].kind = "idle"
    /\ calls < MaxCalls
    /\ calls' = calls + 1
    /\ baseUrl' = OrElse(config.baseUrl, DefaultBaseUrl)
    /\ apiKey' = OrElse(config.apiKey, "")
    /\ containerMemories' = InitializeRegistry(containerMemories)
    /\ proc' = [proc EXCEPT ![p] = [Idle EXCEPT !.kind = "initialize", !.config = config]]
    /\ once' = IF once.config = config THEN once ELSE [NoOnce EXCEPT !.config = config]
    /\ ret' = NoRet
    /\ UNCHANGED <<store, minted, origin, owed, raced, forgetRequested>>

InitializeResume(p) ==
    /\ proc[p].kind = "initialize"
    /\ \E answer \in HealthAnswers :
         LET status == InitializeOutcome(answer) IN
         /\ ret' = [NoRet EXCEPT !.op = "initialize", !.status = status,
                                                    !.config = proc[p].config,
                                                    !.answer = answer]
         /\ once' = IF status = "returned" /\ once.config = proc[p].config
                    THEN IF once.valid
                         THEN [once EXCEPT !.again = TRUE]
                         ELSE [valid |-> TRUE, config |-> proc[p].config,
                               baseUrl |-> baseUrl, apiKey |-> apiKey, again |-> FALSE]
                    ELSE once
    /\ proc' = [proc EXCEPT ![p] = Idle]
    /\ UNCHANGED <<baseUrl, apiKey, containerMemories, store, minted, origin, owed, raced,
                   forgetRequested, calls>>

----------------------------------------------------------------------------
(* ingest, lines 83-155 *)

\* lines 94-105: the context object of one message
ContextObj(session, message, options) ==
    LET base == [sessionId |-> session.sessionId, role |-> message.role,
                 speaker |-> message.speaker, containerTag |-> options.containerTag]
        merged == Spread(Spread(base, session.metadata), options.metadata)
    IN  IF message.timestamp # ""
        THEN Spread(merged, "timestamp" :> message.timestamp)
        ELSE merged

\* line 111
StoreTags(session, message, options) ==
    << options.containerTag, "session:" \o session.sessionId, message.role >>

\* lines 107-112: the body of POST /v1/remember
StoreBody(session, message, options) ==
    [content |-> message.content,
     source_type |-> "auto_capture",
     context |-> Stringify(ContextObj(session, message, options)),
     tags |-> StoreTags(session, message, options)]

\* lines 92-112: the requests of one session, in message order
MutSessionRequests(session, options) ==
    [i \in 1..Len(session.messages) |->
        StoreBody(session, session.messages[Len(session.messages) + 1 - i], options)]
SessionRequests(session, options) ==
    [i \in 1..Len(session.messages) |-> StoreBody(session, session.messages[i], options)]

\* lines 90-112: the requests of one ingest call, in the order the loops issue them
RECURSIVE Requests(_, _)
Requests(sessions, options) ==
    IF sessions = << >> THEN << >>
    ELSE SessionRequests(Head(sessions), options) \o Requests(Tail(sessions), options)

\* the input's number of messages
RECURSIVE MessageCount(_)
MessageCount(sessions) ==
    IF sessions = << >> THEN 0
    ELSE Len(Head(sessions).messages) + MessageCount(Tail(sessions))

(* POST /v1/remember as the server answers it.  transport: the fetch rejects
   ("reject") or resolves ("http"); ok: response.ok; json: the body parses;
   success, memory_id, duplicate_of: TribalMemoryStoreResponse, lines 23-28. *)
StoreAnswer(transport, ok, json, success, memory_id, duplicate_of) ==
    [transport |-> transport, ok |-> ok, json |-> json, success |-> success,
     memory_id |-> memory_id, duplicate_of |-> duplicate_of]

StoreFailures ==
    { StoreAnswer("reject", FALSE, FALSE, FALSE, NoId, NoId),
      StoreAnswer("http", FALSE, FALSE, FALSE, NoId, NoId),
      StoreAnswer("http", TRUE, FALSE, FALSE, NoId, NoId),
      StoreAnswer("http", TRUE, TRUE, FALSE, NoId, NoId) }

\* a new memory gets the next id; a duplicate names a live memory of the same content
StoreAnswers(body) ==
    StoreFailures
    \cup (IF minted < MaxMem
          THEN { StoreAnswer("http", TRUE, TRUE, TRUE, minted + 1, NoId) }
          ELSE {})
    \cup { StoreAnswer("http", TRUE, TRUE, s, NoId, m) :
             s \in BOOLEAN, m \in { j \in DOMAIN store : store[j].content = body.content } }

\* the id the server stored or deduplicated the message under, NoId when it did neither
AckedId(answer) ==
    IF answer.memory_id # NoId THEN answer.memory_id ELSE answer.duplicate_of

\* lines 114-141: the ids collected after one answer
MutStoreResult(memoryIds, answer) ==
    IF answer.transport = "http" /\ answer.ok /\ answer.json
       /\ answer.success /\ answer.memory_id # NoId
    THEN Append(memoryIds, answer.memory_id)
    ELSE memoryIds
StoreResult(memoryIds, answer) ==
    IF answer.transport = "reject" THEN memoryIds       \* catch, line 139
    ELSE IF ~answer.ok THEN memoryIds                    \* continue, line 128
    ELSE IF ~answer.json THEN memoryIds                  \* response.json() rejects -> catch
    ELSE IF answer.success /\ answer.memory_id # NoId
         THEN Append(memoryIds, answer.memory_id)        \* line 134
    ELSE IF answer.duplicate_of # NoId
         THEN Append(memoryIds, answer.duplicate_of)     \* line 137
    ELSE memoryIds

\* lines 146-147
MutTrack(map, tag, memoryIds) == Put(map, tag, memoryIds)
Track(map, tag, memoryIds) == Put(map, tag, Get(map, tag) \o memoryIds)

\* line 154: the ids of the IngestResult, given the tracked list and the call's own ids
MutDocumentIds(tracked, memoryIds) == tracked
DocumentIds(tracked, memoryIds) == memoryIds

\* lines 145-154: the registry update and the return, with the locals l of the call
IngestReturn(p, l) ==
    LET tracked == Track(containerMemories, l.tag, l.memoryIds)
        documentIds == DocumentIds(tracked[l.tag], l.memoryIds)
    IN
    /\ containerMemories' = tracked
    /\ owed' = [owed EXCEPT ![l.tag] = @ \cup Range(documentIds)]
    /\ ret' = [NoRet EXCEPT !.op = "ingest", !.status = "returned",
                            !.tag = l.tag,
                            !.sessions = l.sessions,
                            !.messages = l.messages,
                            !.attempted = l.answered,
                            !.rejected = l.rejected,
                            !.acked = l.acked,
                            !.ackedAt = l.ackedAt,
                            !.overlap = l.overlap,
                            !.documentIds = documentIds]
    /\ proc' = [proc EXCEPT ![p] = Idle]

\* lines 87-115: entry; the first request is issued, or there is no message at all
IngestCall(p, sessions, options) ==
    /\ proc[p].kind = "idle"
    /\ calls < MaxCalls
    /\ calls' = calls + 1
    /\ LET l == [Idle EXCEPT !.kind = "ingest", !.tag = options.containerTag,
                             !.sessions = sessions,
                             !.messages = MessageCount(sessions),
                             !.requests = Requests(sessions, options),
                             !.overlap = Ingesting(options.containerTag)]
       IN  IF l.requests = << >>
           THEN IngestReturn(p, l)
           ELSE /\ proc' = [q \in Procs |->
                              IF q = p THEN [l EXCEPT !.k = 1]
                              ELSE IF proc[q].kind = "ingest" /\ proc[q].tag = l.tag
                                   THEN [proc[q] EXCEPT !.overlap = TRUE]
                                   ELSE proc[q]]
                /\ ret' = NoRet /\ UNCHANGED <<containerMemories, owed>>
    /\ raced' = [raced EXCEPT ![options.containerTag] = @ \/ Clearing(options.containerTag)]
    /\ UNCHANGED <<baseUrl, apiKey, store, minted, origin, forgetRequested, once>>

\* lines 115-154: the answer to request k arrives; next request, or return
IngestResume(p) ==
    /\ proc[p].kind = "ingest"
    /\ \E answer \in StoreAnswers(proc[p].requests[proc[p].k]) :
         LET body == proc[p].requests[proc[p].k]
             l == [proc[p] EXCEPT
                     !.answered = @ + 1,
                     !.ackedAt = IF AckedId(answer) # NoId
                                 THEN Append(@, proc[p].k) ELSE @,
                     !.memoryIds = StoreResult(@, answer),
                     !.rejected = IF answer.transport = "reject" THEN @ + 1 ELSE @,
                     !.acked = IF AckedId(answer) # NoId
                               THEN Append(@, AckedId(answer)) ELSE @]
         IN
         /\ IF answer.memory_id # NoId
            THEN /\ store' = Put(store, answer.memory_id,
                                 [content |-> body.content, tags |-> body.tags,
                                  context |-> body.context])
                 /\ minted' = minted + 1
                 /\ origin' = Put(origin, answer.memory_id, proc[p].tag)
            ELSE UNCHANGED <<store, minted, origin>>
         /\ IF l.k < Len(l.requests)
            THEN /\ proc' = [proc EXCEPT ![p] = [l EXCEPT !.k = @ + 1]]
                 /\ ret' = NoRet /\ UNCHANGED <<containerMemories, owed>>
            ELSE IngestReturn(p, l)
    /\ UNCHANGED <<baseUrl, apiKey, raced, forgetRequested, once, calls>>

----------------------------------------------------------------------------
(* awaitIndexing, lines 157-169 *)

\* lines 163-168: the argument of onProgress
MutProgress(result) ==
    [completedIds |-> << >>, failedIds |-> result.documentIds,
     total |-> Len(result.documentIds)]
Progress(result) ==
    [completedIds |-> result.documentIds, failedIds |-> << >>,
     total |-> Len(result.documentIds)]

\* lines 157-169: no await; onProgress?.(...) is called when a callback is given
AwaitIndexing(p, result, onProgress) ==
    /\ proc[p].kind = "idle"
    /\ calls < MaxCalls
    /\ calls' = calls + 1
    /\ ret' = [NoRet EXCEPT !.op = "awaitIndexing", !.status = "returned",
                            !.documentIds = result.documentIds,
                            !.callback = onProgress,
                            !.progress = IF onProgress THEN << Progress(result) >>
                                         ELSE << >>]
    /\ UNCHANGED <<baseUrl, apiKey, containerMemories, proc, store, minted, origin, owed, raced,
                   forgetRequested, once>>

----------------------------------------------------------------------------
(* search, lines 171-231 *)

\* lines 172-177: the body of POST /v1/recall
RecallBody(query, options) ==
    [query |-> query,
     limit |-> OrElseNum(options.limit, DefaultLimit),
     min_relevance |-> OrElseNum(options.threshold, DefaultMinRelevance),
     tags |-> << options.containerTag >>]

\* the server's similarity of a memory to a query, in hundredths
Similarity(content, query) ==
    IF content = "I love a good steak" THEN 80 ELSE 40

\* the server filters on tags: a memory matches when it carries a tag of the request
Matches(body) ==
    { m \in DOMAIN store :
        /\ Range(store[m].tags) \cap Range(body.tags) # {}
        /\ Similarity(store[m].content, body.query) >= body.min_relevance }

\* TribalMemoryRecallResult, lines 30-45
RecallResult(m, body) ==
    [memory |-> [id |-> m, content |-> store[m].content, tags |-> store[m].tags,
                 context |-> store[m].context],
     similarity_score |-> Similarity(store[m].content, body.query)]

\* the lists of at most n distinct memories of ms, in any order
RECURSIVE Lists(_, _)
Lists(ms, n) ==
    IF n = 0 THEN { << >> }
    ELSE LET shorter == Lists(ms, n - 1)
         IN  shorter \cup { Append(l, m) : l \in shorter, m \in ms } 

NoRepeat(l) == \A i \in 1..Len(l), j \in 1..Len(l) : l[i] = l[j] => i = j

\* the result lists the server may answer with: matching memories, each once, in its order
RecallLists(body) ==
    LET n == IF body.limit < MaxResults THEN body.limit ELSE MaxResults
    IN  { [i \in 1..Len(l) |-> RecallResult(l[i], body)] :
            l \in { x \in Lists(Matches(body), n) : NoRepeat(x) } }

(* POST /v1/recall as the server answers it: the fetch rejects, a non-OK status,
   a body that does not parse, a body with an error field, or a result list. *)
RecallAnswers(body) ==
    { [kind |-> k, results |-> << >>] : k \in {"reject", "status", "badjson", "error"} }
    \cup { [kind |-> "results", results |-> rs] : rs \in RecallLists(body) }

\* lines 215-225
MutSearchResult(r) ==
    [id |-> r.memory.id, content |-> r.memory.content, score |-> 0,
     metadata |-> Spread(r.memory.context, "tags" :> r.memory.tags)]
SearchResult(r) ==
    [id |-> r.memory.id, content |-> r.memory.content, score |-> r.similarity_score,
     metadata |-> Spread(r.memory.context, "tags" :> r.memory.tags)]

\* lines 179-230: the value search returns for an answer; "threw" when it raises
MutSearchOutcome(answer) ==
    IF answer.kind \in {"reject", "status"} THEN [status |-> "threw", results |-> << >>]
    ELSE [status |-> "returned",
          results |-> [i \in 1..Len(answer.results) |-> SearchResult(answer.results[i])]]
SearchOutcome(answer) ==
    IF answer.kind = "reject"                         \* fetch rejects -> catch, line 229
    THEN [status |-> "returned", results |-> << >>]
    ELSE IF answer.kind = "status"                    \* throw, line 190 -> catch, line 229
    THEN [status |-> "returned", results |-> << >>]
    ELSE IF answer.kind = "badjson"                   \* response.json() rejects -> catch
    THEN [status |-> "returned", results |-> << >>]
    ELSE IF answer.kind = "error"                     \* line 197
    THEN [status |-> "returned", results |-> << >>]
    ELSE [status |-> "returned",
          results |-> [i \in 1..Len(answer.results) |-> SearchResult(answer.results[i])]]

\* lines 172-187: entry; the recall request is issued
SearchCall(p, query, options) ==
    /\ proc[p].kind = "idle"
    /\ calls < MaxCalls
    /\ calls' = calls + 1
    /\ proc' = [proc EXCEPT ![p] = [Idle EXCEPT !.kind = "search",
                                                !.tag = options.containerTag,
                                                !.body = RecallBody(query, options)]]
    /\ ret' = NoRet
    /\ UNCHANGED <<baseUrl, apiKey, containerMemories, store, minted, origin, owed, raced,
                   forgetRequested, once>>

\* lines 189-230: the answer arrives; search returns
SearchResume(p) ==
    /\ proc[p].kind = "search"
    /\ \E answer \in RecallAnswers(proc[p].body) :
         LET out == SearchOutcome(answer) IN
         ret' = [NoRet EXCEPT !.op = "search", !.status = out.status,
                                                 !.tag = proc[p].tag,
                                                 !.answer = answer.kind,
                                                 !.raw = answer.results,
                                                 !.results = out.results]
    /\ proc' = [proc EXCEPT ![p] = Idle]
    /\ UNCHANGED <<baseUrl, apiKey, containerMemories, store, minted, origin, owed, raced,
                   forgetRequested, once, calls>>

----------------------------------------------------------------------------
(* clear, lines 233-259 *)

(* DELETE /v1/forget/{id} as the server answers it: the fetch rejects, a non-OK
   status, or OK, which the server gives for a live memory and removes it. *)
ForgetAnswers(m) ==
    { "reject", "status" } \cup (IF m \in DOMAIN store THEN { "ok" } ELSE {})

\* lines 249-251
Deleted(deleted, answer) == IF answer = "ok" THEN deleted + 1 ELSE deleted

\* line 257
MutRelease(map, tag, deleted, memoryIds) ==
    IF deleted = Len(memoryIds) THEN Delete(map, tag) ELSE map
MutReleaseAll(map, tag, deleted, memoryIds) == EmptyObj
MutReleaseKeep(map, tag, deleted, memoryIds) == Put(map, tag, << >>)
Release(map, tag, deleted, memoryIds) == Delete(map, tag)

\* lines 257-258: the registry entry is dropped and clear returns, with the locals l
ClearReturn(p, l) ==
    /\ containerMemories' = Release(containerMemories, l.tag, l.deleted, l.memoryIds)
    /\ owed' = [owed EXCEPT ![l.tag] = @ \ Range(l.memoryIds)]
    /\ ret' = [NoRet EXCEPT !.op = "clear", !.status = "returned",
                                               !.tag = l.tag,
                                               !.documentIds = l.memoryIds,
                                               !.requested = SubSeq(l.memoryIds, 1, l.k),
                                               !.owed = owed[l.tag],
                                               !.deleted = l.deleted]
    /\ proc' = [proc EXCEPT ![p] = Idle]

\* lines 234-247: entry; the first DELETE is issued, or nothing is tracked
ClearCall(p, containerTag) ==
    /\ proc[p].kind = "idle"
    /\ calls < MaxCalls
    /\ calls' = calls + 1
    /\ LET l == [Idle EXCEPT !.kind = "clear", !.tag = containerTag,
                             !.memoryIds = Get(containerMemories, containerTag)]
       IN  IF l.memoryIds = << >>
           THEN /\ ClearReturn(p, l)
                /\ UNCHANGED forgetRequested
           ELSE /\ proc' = [proc EXCEPT ![p] = [l EXCEPT !.k = 1]]
                /\ forgetRequested' = forgetRequested \cup { l.memoryIds[1] }
                /\ ret' = NoRet /\ UNCHANGED <<containerMemories, owed>>
    /\ raced' = [raced EXCEPT ![containerTag] = @ \/ Ingesting(containerTag)]
    /\ UNCHANGED <<baseUrl, apiKey, store, minted, origin, once>>

\* lines 239-258: the answer to DELETE k arrives; next DELETE, or return
ClearResume(p) ==
    /\ proc[p].kind = "clear"
    /\ \E answer \in ForgetAnswers(proc[p].memoryIds[proc[p].k]) :
         LET l == [proc[p] EXCEPT !.deleted = Deleted(@, answer)] IN
         /\ store' = IF answer = "ok" THEN Delete(store, l.memoryIds[l.k]) ELSE store
         /\ IF l.k < Len(l.memoryIds)
            THEN /\ proc' = [proc EXCEPT ![p] = [l EXCEPT !.k = @ + 1]]
                 /\ forgetRequested' = forgetRequested \cup { l.memoryIds[l.k + 1] }
                 /\ ret' = NoRet /\ UNCHANGED <<containerMemories, owed>>
            ELSE /\ ClearReturn(p, l)
                 /\ UNCHANGED forgetRequested
    /\ UNCHANGED <<baseUrl, apiKey, raced, minted, origin, once, calls>>

----------------------------------------------------------------------------
(* The provider after construction (lines 55-59), an empty server, idle workers *)

Init ==
    /\ baseUrl = DefaultBaseUrl
    /\ apiKey = ""
    /\ containerMemories = EmptyObj
    /\ proc = [p \in Procs |-> Idle]
    /\ ret = NoRet
    /\ store = EmptyObj
    /\ minted = 0
    /\ origin = EmptyObj
    /\ owed = [t \in Tags |-> {}]
    /\ raced = [t \in Tags |-> FALSE]
    /\ forgetRequested = {}
    /\ once = NoOnce
    /\ calls = 0

IngestOptions == { [containerTag |-> t, metadata |-> md] : t \in Tags, md \in OptionMetadata }
SearchOptions == { [containerTag |-> t, limit |-> lt[1], threshold |-> lt[2]] :
                     t \in Tags, lt \in LimitsAndThresholds }

(* Any worker may call any method at any time *)
Next ==
    \/ \E p \in Procs, config \in Configs : InitializeCall(p, config)
    \/ \E p \in Procs : InitializeResume(p)
    \/ \E p \in Procs, sessions \in SessionInputs, options \in IngestOptions :
         IngestCall(p, sessions, options)
    \/ \E p \in Procs : IngestResume(p)
    \/ \E p \in Procs, result \in IngestResults, onProgress \in BOOLEAN :
         AwaitIndexing(p, result, onProgress)
    \/ \E p \in Procs, query \in Queries, options \in SearchOptions :
         SearchCall(p, query, options)
    \/ \E p \in Procs : SearchResume(p)
    \/ \E p \in Procs, containerTag \in Tags : ClearCall(p, containerTag)
    \/ \E p \in Procs : ClearResume(p)

Spec == Init /\ [][Next]_vars

(* The caller serializes the calls on one container tag (spec 4.1): a call on a
   tag starts only when no other call on that tag is in flight *)
NextSerial ==
    \/ \E p \in Procs, config \in Configs : InitializeCall(p, config)
    \/ \E p \in Procs : InitializeResume(p)
    \/ \E p \in Procs, sessions \in SessionInputs, options \in IngestOptions :
         ~Busy(options.containerTag) /\ IngestCall(p, sessions, options)
    \/ \E p \in Procs : IngestResume(p)
    \/ \E p \in Procs, result \in IngestResults, onProgress \in BOOLEAN :
         AwaitIndexing(p, result, onProgress)
    \/ \E p \in Procs, query \in Queries, options \in SearchOptions :
         ~Busy(options.containerTag) /\ SearchCall(p, query, options)
    \/ \E p \in Procs : SearchResume(p)
    \/ \E p \in Procs, containerTag \in Tags :
         ~Busy(containerTag) /\ ClearCall(p, containerTag)
    \/ \E p \in Procs : ClearResume(p)

SpecSerial == Init /\ [][NextSerial]_vars

(* The workers only ingest, concurrently, under the same tag or different tags *)
NextIngest ==
    \/ \E p \in Procs, sessions \in SessionInputs, options \in IngestOptions :
         IngestCall(p, sessions, options)
    \/ \E p \in Procs : IngestResume(p)

SpecIngest == Init /\ [][NextIngest]_vars

----------------------------------------------------------------------------
(* Scenario classifier (spec 4.4), on the scenario format of the scenario README *)

UpperCase == "ABCDEFGHIJKLMNOPQRSTUVWXYZ"
LowerCase == "abcdefghijklmnopqrstuvwxyz"

\* one character, lower-cased
LowerChar(c) ==
    IF \E i \in 1..Len(UpperCase) : SubSeq(UpperCase, i, i) = c
    THEN LET i == CHOOSE j \in 1..Len(UpperCase) : SubSeq(UpperCase, j, j) = c
         IN  SubSeq(LowerCase, i, i)
    ELSE c

RECURSIVE Lower(_)
Lower(str) ==
    IF Len(str) = 0 THEN ""
    ELSE LowerChar(SubSeq(str, 1, 1)) \o Lower(SubSeq(str, 2, Len(str)))

\* substring match
Includes(str, sub) ==
    \E i \in 1..(Len(str) - Len(sub) + 1) : SubSeq(str, i, i + Len(sub) - 1) = sub

\* case-insensitive substring match
ContainsCI(str, sub) == Includes(Lower(str), Lower(sub))

\* the success criteria and failure modes of the documented scenario
ScenarioCriteria(should_retrieve) ==
    [contains |-> << "vegetarian", "veggie", "plant-based" >>,
     not_contains |-> << "steak", "steakhouse", "meat" >>,
     should_retrieve |-> should_retrieve]

\* a failure mode and the content that shows it was hit
ScenarioFailureModes ==
    << [type |-> "stale_retrieval", pattern |-> "steak"],
       [type |-> "temporal_confusion", pattern |-> "vegetarian"] >>

OneTermCriteria(should_retrieve) ==
    [contains |-> << "vegetarian" >>, not_contains |-> << "meat" >>,
     should_retrieve |-> should_retrieve]

\* should_retrieve: "true", "false", or "undeclared"
CriteriaInputs ==
    { ScenarioCriteria(sr) : sr \in {"true", "false", "undeclared"} }
    \cup { OneTermCriteria(sr) : sr \in {"true", "false", "undeclared"} }

AnswerInputs ==
    { "Try the vegetarian bistro nearby",
      "Try the downtown steakhouse",
      "A Vegetarian, veggie, plant-based cafe",
      "A vegetarian place with MEAT options",
      "I do not know" }

\* the contents the search retrieved
RetrievedInputs ==
    { << >>, << "I love a good steak" >>, << "I've gone vegetarian now" >> }

\* 4.4, last paragraph: the first failure mode whose pattern the retrieved content
\* matches, else the generic label
FailureLabel(failure_modes, retrieved) ==
    LET hits == { i \in 1..Len(failure_modes) :
                    \E j \in 1..Len(retrieved) :
                        ContainsCI(retrieved[j], failure_modes[i].pattern) }
    IN  IF hits = {} THEN "criteria_mismatch"
        ELSE failure_modes[CHOOSE i \in hits : \A j \in hits : i <= j].type

\* 4.4: not_contains, then contains, then should_retrieve
Classify(criteria, failure_modes, text, retrieved) ==
    IF \E i \in 1..Len(criteria.not_contains) : ContainsCI(text, criteria.not_contains[i])
    THEN [outcome |-> "failed", mode |-> FailureLabel(failure_modes, retrieved)]
    ELSE IF \E i \in 1..Len(criteria.contains) : ~ContainsCI(text, criteria.contains[i])
    THEN [outcome |-> "failed", mode |-> FailureLabel(failure_modes, retrieved)]
    ELSE IF criteria.should_retrieve = "false" /\ retrieved # << >>
    THEN [outcome |-> "failed", mode |-> "abstention_violation"]
    ELSE IF criteria.should_retrieve = "true" /\ retrieved = << >>
    THEN [outcome |-> "failed", mode |-> "missed_retrieval"]
    ELSE [outcome |-> "passed", mode |-> "none"]

\* one case is graded
Grade(criteria, text, retrieved) ==
    /\ calls < MaxCalls
    /\ calls' = calls + 1
    /\ LET c == Classify(criteria, ScenarioFailureModes, text, retrieved) IN
       ret' = [NoRet EXCEPT !.op = "classify", !.status = "returned",
                            !.text = text, !.criteria = criteria,
                            !.retrieved = retrieved,
                            !.outcome = c.outcome, !.mode = c.mode]
    /\ UNCHANGED <<baseUrl, apiKey, containerMemories, proc, store, minted, origin, owed, raced,
                   forgetRequested, once>>

NextClassify ==
    \E criteria \in CriteriaInputs, text \in AnswerInputs, retrieved \in RetrievedInputs :
        Grade(criteria, text, retrieved)

SpecClassify == Init /\ [][NextClassify]_vars

----------------------------------------------------------------------------
(* Claims *)

\* a memory the recall request of body would match is live on the server
SomeMatch(tag) == \E m \in DOMAIN store : tag \in Range(store[m].tags)

(* C1: isolation.  A search under container tag A never returns a result whose
   id was created by an ingest under another tag B. *)
C1_Isolation ==
    ret.op = "search" =>
        \A i \in 1..Len(ret.results) : origin[ret.results[i].id] = ret.tag

(* C2: cleanup completeness.  When clear(T) returns it has issued a DELETE for
   every id returned by an ingest under T since the previous clear(T), memory_id
   or duplicate_of alike, and it has done so for all tracked ids whether or not
   some of the deletions failed. *)
C2_CleanupComplete ==
    ret.op = "clear" =>
        /\ ret.owed \subseteq Range(ret.requested)
        /\ ret.requested = ret.documentIds
        /\ Range(ret.requested) \subseteq forgetRequested

\* clear returns after two ingests, one id tracked twice (a duplicate_of), one deletion failed
C2_Witness ==
    /\ ret.op = "clear"
    /\ Cardinality(ret.owed) >= 1
    /\ \E i, j \in 1..Len(ret.requested) : i < j /\ ret.requested[i] = ret.requested[j]
    /\ ret.deleted < Len(ret.requested)

(* C3: per-message store failures are non-fatal.  Whatever the answers, ingest
   returns normally, has attempted every message of every session, and its
   documentIds are exactly the ids the server stored or deduplicated, in order. *)
C3_StoreFailuresNonFatal ==
    ret.op = "ingest" =>
        /\ ret.status = "returned"
        /\ ret.attempted = ret.messages
        /\ ret.documentIds = ret.acked

\* the first of two messages failed with a status or body, the second was stored
C3_Witness ==
    /\ ret.op = "ingest"
    /\ ret.messages = 2
    /\ ret.rejected = 0
    /\ Len(ret.documentIds) = 1
    /\ ret.documentIds[1] \in DOMAIN store
    /\ store[ret.documentIds[1]].content = Session1.messages[2].content

(* C4: when every store request is rejected at the transport level, ingest
   fails with an error instead of returning an IngestResult. *)
C4_UnreachableIngestFails ==
    (ret.op = "ingest" /\ ret.messages > 0 /\ ret.rejected = ret.messages)
        => ret.status = "threw"

(* C5: when the recall request is rejected at the transport level, search
   fails with an error instead of returning an empty sequence. *)
C5_UnreachableSearchFails ==
    (ret.op = "search" /\ ret.answer = "reject") => ret.status = "threw"

(* C6: on a backend error (a non-OK status, or a body with an error field)
   search returns the empty sequence and raises nothing. *)
C6_SearchBackendErrorEmpty ==
    (ret.op = "search" /\ ret.answer \in {"status", "error"})
        => (ret.status = "returned" /\ ret.results = << >>)

\* the server holds a memory under the searched tag and answers with a non-OK status
C6_Witness ==
    /\ ret.op = "search"
    /\ ret.answer = "status"
    /\ SomeMatch(ret.tag)

(* C7: the documentIds of an IngestResult are at most as many as the messages
   of the input sessions. *)
C7_DocumentIdsBounded ==
    ret.op = "ingest" => Len(ret.documentIds) <= ret.messages

\* an ingest of two messages returns two ids while the tag already tracks others
C7_Witness ==
    /\ ret.op = "ingest"
    /\ ret.messages = 2
    /\ Len(ret.documentIds) = 2
    /\ Len(Get(containerMemories, ret.tag)) > 2

(* C8: initialize fails when the health probe cannot reach the backend or gets
   a non-success status; it returns only after a success status. *)
C8_InitializeHealth ==
    ret.op = "initialize" =>
        /\ ret.answer \in {"reject", "status"} => ret.status = "threw"
        /\ ret.status = "returned" => ret.answer = "healthy"

\* initialize has failed on a non-success health status
C8_Witness ==
    /\ ret.op = "initialize"
    /\ ret.answer = "status"
    /\ ret.status = "threw"

\* a step of initialize by some worker: its entry, or its completion
InitializeStep ==
    \E p \in Procs :
        \/ proc[p].kind = "idle" /\ proc'[p].kind = "initialize"
        \/ proc[p].kind = "initialize" /\ proc'[p].kind = "idle"

\* the completion, with a healthy backend, of an initialize whose config has
\* already been initialized with
SecondInitialize ==
    \E p \in Procs :
        /\ proc[p].kind = "initialize" /\ proc'[p].kind = "idle"
        /\ once.valid /\ once.config = proc[p].config
        /\ ret'.answer = "healthy"

(* C9: initialize is idempotent.  No step of initialize changes the registry,
   and a second initialize with the same config and a healthy backend returns
   normally and leaves baseUrl and apiKey as the first call left them. *)
C9_InitializeIdempotent ==
    [][ /\ InitializeStep => containerMemories' = containerMemories
        /\ SecondInitialize =>
             /\ ret'.status = "returned"
             /\ baseUrl' = once.baseUrl
             /\ apiKey' = once.apiKey
             /\ baseUrl' = OrElse(once.config.baseUrl, DefaultBaseUrl)
             /\ apiKey' = once.config.apiKey ]_vars

\* a second initialize with the same config has returned while ids are tracked
C9_Witness ==
    /\ ret.op = "initialize"
    /\ ret.status = "returned"
    /\ once.again
    /\ once.config = ret.config
    /\ \E t \in DOMAIN containerMemories : containerMemories[t] # << >>

(* C10: clear frees the tag.  When clear(T) returns, normally in every case,
   the registry holds no entry for T, so the tracked list a later ingest under
   T starts from is empty, whatever the deletions answered. *)
C10_ClearFreesTag ==
    ret.op = "clear" =>
        /\ ret.status = "returned"
        /\ ret.tag \notin DOMAIN containerMemories
        /\ Get(containerMemories, ret.tag) = << >>

\* clear returns with some deletions succeeded and some failed
C10_Witness ==
    /\ ret.op = "clear"
    /\ Len(ret.requested) >= 2
    /\ ret.deleted > 0
    /\ ret.deleted < Len(ret.requested)

\* the messages of the input sessions with their session, in input order
RECURSIVE FlatMessages(_)
FlatMessages(sessions) ==
    IF sessions = << >> THEN << >>
    ELSE [i \in 1..Len(Head(sessions).messages) |->
             [session |-> Head(sessions), message |-> Head(sessions).messages[i]]]
         \o FlatMessages(Tail(sessions))

(* C11: message order is preserved.  While an ingest is running, the requests
   issued so far are those of the first messages in input order, each issued
   only after the answer to the one before it; the documentIds it returns list
   the acknowledged ids in message order. *)
C11_MessageOrder ==
    /\ \A p \in Procs :
         proc[p].kind = "ingest" =>
             /\ proc[p].k = proc[p].answered + 1
             /\ \A i \in 1..proc[p].k :
                  LET f == FlatMessages(proc[p].sessions)[i] IN
                  /\ proc[p].requests[i].content = f.message.content
                  /\ proc[p].requests[i].tags[2] = "session:" \o f.session.sessionId
                  /\ proc[p].requests[i].tags[3] = f.message.role
    /\ ret.op = "ingest" =>
         /\ ret.attempted = ret.messages
         /\ Len(ret.ackedAt) = Len(ret.documentIds)
         /\ \A i, j \in 1..Len(ret.ackedAt) : i < j => ret.ackedAt[i] < ret.ackedAt[j]
         /\ \A i \in 1..Len(ret.documentIds) :
              ret.documentIds[i] \in DOMAIN store =>
                  store[ret.documentIds[i]].content
                      = FlatMessages(ret.sessions)[ret.ackedAt[i]].message.content

\* both messages of a session of two were stored and their ids returned
C11_Witness ==
    /\ ret.op = "ingest"
    /\ ret.messages = 2
    /\ ret.ackedAt = << 1, 2 >>
    /\ \A i \in 1..2 : ret.documentIds[i] \in DOMAIN store
    /\ store[ret.documentIds[1]].content # store[ret.documentIds[2]].content

(* C12: registry updates are not lost.  With ingest calls running concurrently,
   under one tag or several, the tracked list of each tag contains every id
   that an IngestResult under that tag has returned, at every moment and so
   once all calls have completed. *)
C12_NoLostUpdate ==
    \A t \in Tags : owed[t] \subseteq Range(Get(containerMemories, t))

\* two ingests under one tag overlapped, both have returned, both added ids
C12_Witness ==
    /\ ret.op = "ingest"
    /\ ret.overlap
    /\ \A p \in Procs : proc[p].kind = "idle"
    /\ ret.documentIds # << >>
    /\ Len(Get(containerMemories, ret.tag)) > Len(ret.documentIds)

(* C13: awaitIndexing on the synchronously indexing backend.  It returns in the
   step it is called in, issues no request, changes neither the registry nor
   the server, and calls onProgress, when given, exactly once with completedIds
   the result's documentIds, failedIds empty and total their number. *)
C13_AwaitIndexingImmediate ==
    [][ ret'.op = "awaitIndexing" =>
          /\ ret'.status = "returned"
          /\ UNCHANGED <<containerMemories, proc, store, minted, forgetRequested>>
          /\ ret'.progress =
               IF ret'.callback
               THEN << [completedIds |-> ret'.documentIds, failedIds |-> << >>,
                        total |-> Len(ret'.documentIds)] >>
               ELSE << >> ]_vars

\* awaitIndexing has reported two ids once while the registry tracks ids
C13_Witness ==
    /\ ret.op = "awaitIndexing"
    /\ Len(ret.progress) = 1
    /\ ret.progress[1].total = 2
    /\ \E t \in DOMAIN containerMemories : containerMemories[t] # << >>

\* the values a store request carries in its context
ContextValues(body) == { body.context[key] : key \in DOMAIN body.context }

(* C14: timestamps are passed through.  Every store request an ingest has
   issued carries the timestamp of the message's session and, when the message
   has one, the message's own timestamp as the context's timestamp. *)
C14_TimestampsPassedThrough ==
    \A p \in Procs :
        proc[p].kind = "ingest" =>
            \A i \in 1..proc[p].k :
                LET f == FlatMessages(proc[p].sessions)[i]
                    body == proc[p].requests[i]
                IN  /\ f.session.timestamp \in ContextValues(body)
                    /\ f.message.timestamp # "" =>
                         /\ "timestamp" \in DOMAIN body.context
                         /\ body.context["timestamp"] = f.message.timestamp

(* C15: the documented scenario.  With contains [vegetarian, veggie,
   plant-based] and not_contains [steak, steakhouse, meat], the answer "Try the
   vegetarian bistro nearby" is classified passed, and the answer "Try the
   downtown steakhouse", with the stale steak memory retrieved, is classified
   failed with mode stale_retrieval. *)
C15_DocumentedScenario ==
    (ret.op = "classify" /\ ret.criteria = ScenarioCriteria("true")
       /\ ret.retrieved # << >>) =>
        /\ ret.text = "Try the vegetarian bistro nearby" => ret.outcome = "passed"
        /\ (ret.text = "Try the downtown steakhouse"
              /\ ret.retrieved = << "I love a good steak" >>)
             => (ret.outcome = "failed" /\ ret.mode = "stale_retrieval")

(* C16: on a successful recall answer search returns one result per result of
   the server, in the server's order, each with the memory's id, its content
   and the similarity score. *)
C16_SearchKeepsServerOrder ==
    (ret.op = "search" /\ ret.answer = "results") =>
        /\ ret.status = "returned"
        /\ Len(ret.results) = Len(ret.raw)
        /\ \A i \in 1..Len(ret.raw) :
             /\ ret.results[i].id = ret.raw[i].memory.id
             /\ ret.results[i].content = ret.raw[i].memory.content
             /\ ret.results[i].score = ret.raw[i].similarity_score

\* the server answered two results, the less similar first, and search returned both
C16_Witness ==
    /\ ret.op = "search"
    /\ ret.answer = "results"
    /\ Len(ret.results) = 2
    /\ ret.results[1].score < ret.results[2].score

(* C17, as stated: under any interleaving of ingest(T) and clear(T), every id a
   completed ingest under T returned is either tracked under T or has had a
   DELETE request issued for it. *)
C17_NoUntrackedUndeleted ==
    \A t \in Tags :
        owed[t] \subseteq Range(Get(containerMemories, t)) \cup forgetRequested

(* C17, amended: the same, for every tag on which no ingest and clear have been
   in flight at the same time (the caller serializes them, spec 4.1); ingests
   may overlap each other, and calls on other tags may interleave freely. *)
C17_NoUntrackedUndeletedSerialized ==
    \A t \in Tags :
        ~raced[t] =>
            owed[t] \subseteq Range(Get(containerMemories, t)) \cup forgetRequested

\* a clear that issued a DELETE returns, never overlapped by an ingest on its
\* tag, while an ingest on another tag is in flight
C17_Witness ==
    /\ ret.op = "clear"
    /\ Len(ret.requested) >= 1
    /\ ~raced[ret.tag]
    /\ \E p \in Procs : proc[p].kind = "ingest" /\ proc[p].tag # ret.tag

(* C18: cleanup stays inside its container.  A clear never issues a DELETE for
   a memory that was created by a store request under another tag and is still
   tracked under that tag, also when the server answered one of the cleared
   tag's store requests with duplicate_of naming that memory. *)
C18_ClearStaysInside ==
    ret.op = "clear" =>
        \A id \in Range(ret.requested) :
            origin[id] # ret.tag => id \notin Range(Get(containerMemories, origin[id]))

(* C19: clear is idempotent.  A clear that finds no tracked id for its tag
   returns normally in the step it is called in, issues no DELETE and leaves
   the server and every tag's tracked list as they were; when the tag has no
   registry entry (never ingested, or already cleared) the registry itself is
   unchanged.  And a clear of a tag called right after a clear of that tag has
   returned is such a clear: it returns at once, adds no DELETE request and
   does not change the registry. *)
C19_ClearIdempotent ==
    [][ /\ (ret'.op = "clear" /\ ret'.documentIds = << >>) =>
              /\ ret'.status = "returned"
              /\ ret'.requested = << >>
              /\ UNCHANGED <<forgetRequested, store, proc>>
              /\ \A t \in Tags : Get(containerMemories', t) = Get(containerMemories, t)
              /\ ret'.tag \notin DOMAIN containerMemories =>
                     UNCHANGED containerMemories
        /\ (ret.op = "clear" /\ \E p \in Procs : ClearCall(p, ret.tag)) =>
              /\ ret'.op = "clear" /\ ret'.tag = ret.tag
              /\ ret'.documentIds = << >>
              /\ UNCHANGED <<forgetRequested, containerMemories>> ]_vars

\* a clear that finds nothing has returned after a clear of its tag issued a DELETE
C19_Witness ==
    /\ ret.op = "clear"
    /\ ret.documentIds = << >>
    /\ \E id \in forgetRequested : origin[id] = ret.tag
    /\ \A p \in Procs : proc[p].kind = "idle"

(* C20: frame of the registry.  A step in which an ingest or a clear with tag T
   returns leaves the entry and the tracked id list of every other tag as they
   were; every other step (of search, awaitIndexing, initialize, and of an
   ingest or clear that has not yet returned) leaves the whole registry
   unchanged. *)
C20_RegistryFrame ==
    [][ IF ret'.op \in {"ingest", "clear"}
        THEN \A t \in (Tags \cup DOMAIN containerMemories
                            \cup DOMAIN containerMemories') \ {ret'.tag} :
                 /\ t \in DOMAIN containerMemories' <=> t \in DOMAIN containerMemories
                 /\ Get(containerMemories', t) = Get(containerMemories, t)
        ELSE UNCHANGED containerMemories ]_vars

\* a clear that issued a DELETE has returned while another tag tracks ids
C20_Witness ==
    /\ ret.op = "clear"
    /\ Len(ret.requested) >= 1
    /\ \E t \in Tags \ {ret.tag} : Get(containerMemories, t) # << >>

============================================================================
